---- MODULE Spec2Model ----
(***************************************************************************)
(* Model of scripts/process_data.py and scripts/config.py: the batch       *)
(* pipeline that turns each configured layer into an optimised GeoJSON     *)
(* file, with the backup of the previous output (3 versions kept).         *)
(*                                                                         *)
(* Numbers are fixed-point: the integer n stands for n * 10^-(PRECISION +  *)
(* ExtraDigits), so a coordinate has at most PRECISION decimals exactly    *)
(* when n is a multiple of Unit.                                           *)
(***************************************************************************)
EXTENDS Integers, Sequences, FiniteSets, TLC

\* ---------------------------------------------------------------- bounds
\* MaxRuns: runs of main followed for a configuration of one layer.
\* MaxJobs: process_layer calls followed for a longer configuration.
\* MaxClock: the last second of the wall clock.
\* ExtraDigits: decimals a coordinate can have beyond PRECISION.
\* MaxLen: length of the lists round_coords is tried on by itself.
\* MaxHoles: interior rings of the polygons count_vertices is tried on.
\* MaxParts: members of the multi-part geometries count_vertices is tried on.
\* MaxKeep: length of the allow-lists clean_attributes is tried on.
MaxRuns == 6
MaxJobs == 4
MaxClock == 3
ExtraDigits == 1
MaxLen == 2
MaxHoles == 2
MaxParts == 2
MaxKeep == 3

\* ------------------------------------------------------------- constants
PRECISION == 6
KEEP == 3
TARGET_CRS == "EPSG:4326"
LAYERS_CONFIG == <<"lots", "ilots", "polygonale">>
ATTRIBUTES_TO_KEEP == <<>>

Stems == {LAYERS_CONFIG[i] : i \in 1..Len(LAYERS_CONFIG)}

RECURSIVE Pow10(_)
Pow10(k) == IF k = 0 THEN 1 ELSE 10 * Pow10(k - 1)

Unit == Pow10(ExtraDigits)

Min(a, b) == IF a < b THEN a ELSE b

Range(q) == {q[i] : i \in 1..Len(q)}

\* s.startswith(p)
StartsWith(s, p) == Len(s) >= Len(p) /\ SubSeq(s, 1, Len(p)) = p

\* ------------------------------------------------- JSON coordinate trees
\* A JSON value of a coordinates member: a number or a list of values.
Num(n) == [kind |-> "num", num |-> n, items |-> <<>>]
List(s) == [kind |-> "list", num |-> 0, items |-> s]
\* The outcome of a call that raised instead of returning a value.
Raised == [kind |-> "raise", num |-> 0, items |-> <<>>]

Pos(x, y) == List(<<Num(x), Num(y)>>)

\* Number of decimals n needs: PRECISION + ExtraDigits less its trailing zeros.
RECURSIVE TrailingZeros(_, _)
TrailingZeros(n, k) ==
    IF k = 0 \/ n % 10 # 0 THEN 0 ELSE 1 + TrailingZeros(n \div 10, k - 1)

Decimals(n) ==
    IF n = 0 THEN 0
    ELSE PRECISION + ExtraDigits - TrailingZeros(n, PRECISION + ExtraDigits)

\* round(c, PRECISION) with ties going to the even neighbour; before it, the
\* same with the remainder never dropped, and with one decimal too many.
RoundUpAlways(n) == ((n \div Unit) + 1) * Unit
RoundOneDigitMore(n) ==
    LET u == Unit \div 10
        q == n \div u
        r == n % u
    IN  IF 2 * r < u THEN q * u ELSE (q + 1) * u

Round(n) ==
    LET q == n \div Unit
        r == n % Unit
    IN  IF 2 * r < Unit THEN q * Unit
        ELSE IF 2 * r > Unit THEN (q + 1) * Unit
        ELSE IF q % 2 = 0 THEN q * Unit ELSE (q + 1) * Unit

\* round_coords: coords[0] decides between recursion and rounding the leaves.
RECURSIVE round_coords(_)
round_coords(coords) ==
    IF coords.kind # "list" THEN Raised
    ELSE IF Len(coords.items) = 0 THEN Raised
    ELSE IF coords.items[1].kind = "list"
    THEN LET rs == [i \in 1..Len(coords.items) |-> round_coords(coords.items[i])]
         IN  IF \E i \in 1..Len(rs) : rs[i] = Raised THEN Raised ELSE List(rs)
    ELSE IF \E i \in 1..Len(coords.items) : coords.items[i].kind # "num"
    THEN Raised
    ELSE List([i \in 1..Len(coords.items) |-> Num(Round(coords.items[i].num))])

\* Every leaf of a tree has at most PRECISION decimals.
RECURSIVE AllRounded(_)
AllRounded(t) ==
    IF t.kind = "num" THEN Decimals(t.num) <= PRECISION
    ELSE \A i \in 1..Len(t.items) : AllRounded(t.items[i])

\* ------------------------------------------------------------ geometries
\* A geometry of the GeoDataFrame; valid is what GEOS answers for is_valid.
Geom(t, c, v) == [type |-> t, coords |-> c, valid |-> v]

\* A column of the GeoDataFrame: its name and the type of its values.
Column(n, t) == [name |-> n, dtype |-> t]
GeometryColumn == Column("geometry", "geometry")

\* What gpd.read_file can return for a source file: a CRS, the geometries
\* and the columns, the geometry column last.
DsParcels ==
    [crs |-> "EPSG:32630",
     cols |-> <<Column("name", "object"), Column("date_maj", "datetime64"),
                GeometryColumn>>,
     feats |-> <<Geom("Polygon",
                      List(<<List(<<Pos(0, 0), Pos(0, 0), Pos(31, 0),
                                    Pos(31, 47), Pos(0, 0)>>)>>), TRUE)>>]
DsBroken ==
    [crs |-> TARGET_CRS,
     cols |-> <<Column("__fid", "int64"), Column("name", "object"), GeometryColumn>>,
     feats |-> <<Geom("Polygon",
                      List(<<List(<<Pos(0, 0), Pos(22, 22), Pos(22, 0),
                                    Pos(0, 22), Pos(0, 0)>>)>>), FALSE),
                 Geom("Point", Pos(15, -15), TRUE)>>]
Datasets == {DsParcels, DsBroken}
NoGdf == [crs |-> "none", cols |-> <<>>, feats |-> <<>>]

\* gdf.is_valid: a missing geometry is not valid.
IsValid(g) == g.type # "null" /\ g.valid

\* geometry.buffer(0): a polygon comes back valid, a point or a line comes
\* back as an empty polygon, a missing geometry stays missing.
Buffer0(g) ==
    IF g.type = "null" THEN g
    ELSE IF g.type \in {"Polygon", "MultiPolygon"} THEN [g EXCEPT !.valid = TRUE]
    ELSE Geom("Polygon", List(<<>>), TRUE)

\* validate_and_fix_geometries: one invalid geometry buffers the whole column.
validate_and_fix_geometries(g) ==
    IF \E i \in 1..Len(g.feats) : ~IsValid(g.feats[i])
    THEN [g EXCEPT !.feats = [i \in 1..Len(g.feats) |-> Buffer0(g.feats[i])]]
    ELSE g

\* The datum transformation of one ordinate (an arbitrary non-identity map).
Transform(n) == 2 * n + 3

RECURSIVE TransformCoords(_)
TransformCoords(t) ==
    IF t.kind = "num" THEN Num(Transform(t.num))
    ELSE List([i \in 1..Len(t.items) |-> TransformCoords(t.items[i])])

\* gdf.to_crs(TARGET_CRS)
to_crs(g) ==
    [g EXCEPT !.crs = TARGET_CRS,
              !.feats = [i \in 1..Len(g.feats) |->
                  [g.feats[i] EXCEPT !.coords = TransformCoords(g.feats[i].coords)]]]

\* `if gdf.crs != TARGET_CRS: gdf = gdf.to_crs(TARGET_CRS)`; before it, the
\* transformation made whatever the CRS.
ReprojectedAlways(g) == to_crs(g)

Reprojected(g) == IF g.crs # TARGET_CRS THEN to_crs(g) ELSE g

IsPosition(t) ==
    t.kind = "list" /\ Len(t.items) > 0 /\ t.items[1].kind = "num"
IsPath(t) ==
    t.kind = "list" /\ Len(t.items) > 0 /\ IsPosition(t.items[1])

\* The vertices of a path that simplification keeps: a vertex equal to its
\* predecessor lies within any tolerance and is dropped.
RECURSIVE DropRepeated(_)
DropRepeated(s) ==
    IF Len(s) <= 1 THEN s
    ELSE LET front == DropRepeated(SubSeq(s, 1, Len(s) - 1))
         IN  IF s[Len(s)] = s[Len(s) - 1] THEN front ELSE Append(front, s[Len(s)])

RECURSIVE SimplifyCoords(_)
SimplifyCoords(t) ==
    IF IsPath(t) THEN List(DropRepeated(t.items))
    ELSE IF t.kind = "list" /\ ~IsPosition(t)
    THEN List([i \in 1..Len(t.items) |-> SimplifyCoords(t.items[i])])
    ELSE t

\* gdf.geometry.simplify(SIMPLIFY_TOLERANCE, preserve_topology=True)
simplify(g) ==
    [g EXCEPT !.feats = [i \in 1..Len(g.feats) |->
        [g.feats[i] EXCEPT !.coords = SimplifyCoords(g.feats[i].coords)]]]

\* The sum of the numbers of a sequence.
RECURSIVE Total(_)
Total(ns) == IF Len(ns) = 0 THEN 0 ELSE ns[1] + Total(Tail(ns))

\* len(poly.exterior.coords): the first ring, and an empty polygon has an
\* empty one; before it, the coordinates of every ring, the holes as well.
AllRingsLen(rings) ==
    Total([i \in 1..Len(rings.items) |-> Len(rings.items[i].items)])

ExteriorLen(rings) ==
    IF Len(rings.items) = 0 THEN 0 ELSE Len(rings.items[1].items)

\* count_vertices(geom)
count_vertices(geom) ==
    IF geom.type = "null" THEN 0
    ELSE IF geom.type = "Polygon" THEN ExteriorLen(geom.coords)
    ELSE IF geom.type = "MultiPolygon"
    THEN Total([i \in 1..Len(geom.coords.items) |-> ExteriorLen(geom.coords.items[i])])
    ELSE IF geom.type = "LineString" THEN Len(geom.coords.items)
    ELSE IF geom.type = "MultiLineString"
    THEN Total([i \in 1..Len(geom.coords.items) |-> Len(geom.coords.items[i].items)])
    ELSE IF geom.type = "Point" THEN 1
    ELSE IF geom.type = "MultiPoint" THEN Len(geom.coords.items)
    ELSE 0

\* gdf.drop(columns=columns_to_drop): the columns whose name starts with
\* '__' go; before it, no column dropped.
DroppedNothing(cols) == cols

Dropped(cols) == SelectSeq(cols, LAMBDA col : ~StartsWith(col.name, "__"))

\* gdf[cols_to_keep]: 'geometry', then the names of the allow-list that are
\* columns of the frame, in the order of the allow-list.
Kept(cols, keep) ==
    LET names == {cols[i].name : i \in 1..Len(cols)}
        cols_to_keep == <<"geometry">> \o SelectSeq(keep, LAMBDA col : col \in names)
    IN  [i \in 1..Len(cols_to_keep) |->
            CHOOSE c \in Range(cols) : c.name = cols_to_keep[i]]

\* gdf[col].dt.strftime('%Y-%m-%d') for the datetime columns: strings.
Formatted(cols) ==
    [i \in 1..Len(cols) |->
        IF cols[i].dtype = "datetime64" THEN Column(cols[i].name, "object")
        ELSE cols[i]]

\* clean_attributes(gdf), ATTRIBUTES_TO_KEEP read as keep; the geometries are
\* not touched (the cells of the other columns are not in the model).
clean_attributes(g, keep) ==
    LET cols == Dropped(g.cols)
    IN  [g EXCEPT !.cols = Formatted(IF Len(keep) > 0 THEN Kept(cols, keep) ELSE cols)]

\* ------------------------------------------------------------ file content
NoFile == [kind |-> "absent", minified |-> FALSE, features |-> <<>>]
Partial == [kind |-> "partial", minified |-> FALSE, features |-> <<>>]
JsonNull == [type |-> "null", coordinates |-> List(<<>>)]

\* The geometry member the GeoJSON driver writes for one feature.
ToGeoJSON(g) ==
    IF g.type = "null" \/ (g.type = "Point" /\ Len(g.coords.items) = 0)
    THEN JsonNull
    ELSE [type |-> g.type, coordinates |-> g.coords]

\* gdf.to_file(output_path, driver='GeoJSON')
Exported(g) ==
    [kind |-> "geojson", minified |-> FALSE,
     features |-> [i \in 1..Len(g.feats) |-> ToGeoJSON(g.feats[i])]]

\* geom['coordinates'] = round_coords(geom['coordinates']) for one feature;
\* a null geometry is not subscriptable.
RoundFeature(f) ==
    IF f.type = "null" THEN Raised ELSE round_coords(f.coordinates)

RoundRaises(c) ==
    c.kind # "geojson"
    \/ \E i \in 1..Len(c.features) : RoundFeature(c.features[i]) = Raised

\* The document json.dump writes back after the rounding loop.
RoundedDoc(c) ==
    [kind |-> "geojson", minified |-> TRUE,
     features |-> [i \in 1..Len(c.features) |->
                      [type |-> c.features[i].type,
                       coordinates |-> RoundFeature(c.features[i])]]]

\* Every coordinate of every feature of a file has at most PRECISION decimals.
FileRounded(c) ==
    /\ c.kind = "geojson"
    /\ \A i \in 1..Len(c.features) :
          c.features[i].type # "null" /\ AllRounded(c.features[i].coordinates)

\* ------------------------------------------------------- backup directory
\* A file of BACKUP_DIR: <stem>_<timestamp><suffix> and its content.
Archive(s, t, c) == [stem |-> s, ts |-> t, content |-> c]

\* strftime('%Y%m%d_%H%M%S') of second t of the clock: always 15 characters.
Stamp(t) == "20240101_00000" \o SubSeq("0123456789", t + 1, t + 1)

\* backup_name, less the suffix that all the archives share.
BackupName(f) == f.stem \o "_" \o Stamp(f.ts)

\* BACKUP_DIR.glob(f"{stem}_*{suffix}") on a file of that name: the pattern
\* is matched from the first character of the name on.
GlobMatches(stem, name) == StartsWith(name, stem \o "_")

Glob(dir, stem) == {f \in dir : GlobMatches(stem, BackupName(f))}

\* The order of str on the characters of a name: digits, '_', letters.
Alphabet == "0123456789_abcdefghijklmnopqrstuvwxyz"
Code(ch) == CHOOSE i \in 1..Len(Alphabet) : SubSeq(Alphabet, i, i) = ch

\* a <= b for two names, character by character.
RECURSIVE NameBefore(_, _)
NameBefore(a, b) ==
    IF Len(a) = 0 THEN TRUE
    ELSE IF Len(b) = 0 THEN FALSE
    ELSE LET x == Code(SubSeq(a, 1, 1))
             y == Code(SubSeq(b, 1, 1))
         IN  IF x # y THEN x < y
             ELSE NameBefore(SubSeq(a, 2, Len(a)), SubSeq(b, 2, Len(b)))

\* Two archives of one stem differ in the stamp alone, and the stamps sort
\* by time.
ComesBefore(f, g) ==
    IF f.stem = g.stem THEN f.ts <= g.ts
    ELSE NameBefore(BackupName(f), BackupName(g))

\* sorted(...): the paths in the order of their names.
RECURSIVE Sorted(_)
Sorted(S) ==
    IF S = {} THEN <<>>
    ELSE LET m == CHOOSE f \in S : \A g \in S : ComesBefore(f, g)
         IN  <<m>> \o Sorted(S \ {m})

\* backups[:-3]; before it the slices [:-4], [:-2] and [3:].
StaleKeepFour(bs) == SubSeq(bs, 1, Len(bs) - (KEEP + 1))
StaleKeepTwo(bs) == SubSeq(bs, 1, Len(bs) - (KEEP - 1))
StaleNewest(bs) == SubSeq(bs, KEEP + 1, Len(bs))

Stale(bs) == SubSeq(bs, 1, Len(bs) - KEEP)

\* shutil.copy2(output_path, backup_path): a file of that name is replaced.
Copied(dir, s, t, c) ==
    {f \in dir : ~(f.stem = s /\ f.ts = t)} \cup {Archive(s, t, c)}

\* ------------------------------------------------------------------ state
VARIABLES
    config,         \* the layer jobs of LAYERS_CONFIG this installation runs, in order
    pc,             \* main: "start", "loop", "report", "exited" or "crashed"
    idx,            \* position of the for loop in config
    stage,          \* process_layer: the stage the current job is about to run
    status,         \* per layer: "NotStarted", "Done" or "Failed" in this run
    success_count,  \* main's counter
    total_count,    \* main's len(LAYERS_CONFIG)
    exit_code,      \* the status the process ended with
    gdf,            \* the GeoDataFrame of the current job
    out,            \* PROCESSED_DATA_DIR: the content of each output file
    backupDir,      \* BACKUP_DIR: the archives
    now,            \* the wall clock, in seconds
    jobs,           \* number of process_layer calls so far
    prev,           \* history: the output file's content when the current job started
    failedAt,       \* history: per layer, the stage that failed its job in this run
    bk,             \* history: the backup_existing_file call of the current job
    hist,           \* history: per stem, the timestamps of the copies made by the
                    \* latest calls that returned, in a row (the last KEEP + 1)
    started,        \* history: the layers process_layer was called for in this run
    rc,             \* the argument and the results of round_coords (SpecRound)
    call            \* a function applied on its own: its arguments and result

vars ==
    <<config, pc, idx, stage, status, success_count, total_count, exit_code,
      gdf, out, backupDir, now, jobs, prev, failedAt, bk, hist, started, rc, call>>

Stages ==
    <<"source_check", "backup", "load", "repair", "reproject", "simplify",
      "clean", "export", "round">>

NoBackup == [outcome |-> "none", stem |-> "", ts |-> 0]
RcIdle == [x |-> Raised, once |-> Raised, twice |-> Raised, n |-> 0]
CallIdle == [n |-> 0]

\* The configurations: LAYERS_CONFIG, or its first one or two layers.
Configs == {SubSeq(LAYERS_CONFIG, 1, k) : k \in 1..Len(LAYERS_CONFIG)}

Init ==
    /\ config \in Configs
    /\ pc = "start"
    /\ idx = 1
    /\ stage = "source_check"
    /\ status = [s \in Stems |-> "NotStarted"]
    /\ success_count = 0
    /\ total_count = 0
    /\ exit_code = 0
    /\ gdf = NoGdf
    /\ out = [s \in Stems |-> NoFile]
    /\ backupDir = {}
    /\ now = 0
    /\ jobs = 0
    /\ prev = NoFile
    /\ failedAt = [s \in Stems |-> "none"]
    /\ bk = NoBackup
    /\ hist = [s \in Stems |-> <<>>]
    /\ started = <<>>
    /\ rc = RcIdle
    /\ call = CallIdle

Layer == config[idx]

\* ------------------------------------------------------------------- main
\* The runs the model follows: MaxRuns of a configuration of one layer, and
\* of a longer one as many as make no more than MaxJobs process_layer calls.
CanRun ==
    IF Len(config) = 1 THEN jobs < MaxRuns ELSE jobs + Len(config) <= MaxJobs

\* main, up to the for loop: the counters start at zero.
MainStart ==
    /\ pc \in {"start", "exited", "crashed"}
    /\ CanRun
    /\ pc' = "loop"
    /\ idx' = 1
    /\ stage' = "source_check"
    /\ status' = [s \in Stems |-> "NotStarted"]
    /\ failedAt' = [s \in Stems |-> "none"]
    /\ success_count' = 0
    /\ total_count' = Len(config)
    /\ exit_code' = 0
    /\ gdf' = NoGdf
    /\ bk' = NoBackup
    /\ started' = <<>>
    /\ UNCHANGED <<config, out, backupDir, now, jobs, prev, hist, rc, call>>

\* process_layer returned ok to `if process_layer(...): success_count += 1`,
\* and the for loop moves to the next layer; before it, a loop that calls
\* process_layer for the same layer again.
ReturnSameLayer(l, ok, at) ==
    /\ status' = [status EXCEPT ![l] = IF ok THEN "Done" ELSE "Failed"]
    /\ failedAt' = [failedAt EXCEPT ![l] = at]
    /\ success_count' = IF ok THEN success_count + 1 ELSE success_count
    /\ total_count' = total_count
    /\ idx' = idx
    /\ pc' = IF idx + 1 > Len(config) THEN "report" ELSE "loop"
    /\ stage' = "source_check"
    /\ gdf' = NoGdf
    /\ prev' = NoFile
    /\ exit_code' = exit_code

Return(l, ok, at) ==
    /\ status' = [status EXCEPT ![l] = IF ok THEN "Done" ELSE "Failed"]
    /\ failedAt' = [failedAt EXCEPT ![l] = at]
    /\ success_count' = IF ok THEN success_count + 1 ELSE success_count
    /\ total_count' = total_count
    /\ idx' = idx + 1
    /\ pc' = IF idx + 1 > Len(config) THEN "report" ELSE "loop"
    /\ stage' = "source_check"
    /\ gdf' = NoGdf
    /\ prev' = NoFile
    /\ exit_code' = exit_code

\* An exception that leaves process_layer: main has no handler, the
\* interpreter prints the traceback and ends with status 1.
Crash(l, at) ==
    /\ status' = status
    /\ failedAt' = [failedAt EXCEPT ![l] = at]
    /\ success_count' = success_count
    /\ total_count' = total_count
    /\ idx' = idx
    /\ pc' = "crashed"
    /\ stage' = "source_check"
    /\ gdf' = NoGdf
    /\ prev' = NoFile
    /\ exit_code' = 1

\* The stages inside the try block of process_layer; before it, a try block
\* that opens after the backup call.
InTryWithoutBackup(at) ==
    at \in {"load", "repair", "reproject", "simplify", "clean", "export", "round"}

InTry(at) ==
    at \in {"backup", "load", "repair", "reproject", "simplify", "clean",
            "export", "round"}

\* An exception raised by stage `at`: `except Exception` returns False.
Raise(l, at) == IF InTry(at) THEN Return(l, FALSE, at) ELSE Crash(l, at)

\* `if not source_path.exists(): ... return False`; before it, a raise in
\* place of the return.
SourceMissingRaises(l) == Crash(l, "source_check")

SourceMissing(l) == Return(l, FALSE, "source_check")

\* The stage moves on inside the same job.
Goto(next) ==
    /\ stage' = next
    /\ UNCHANGED <<pc, idx, status, failedAt, success_count, total_count, exit_code, prev>>

\* process_layer entry and stage 1: the source file is there or not; before
\* it, an entry that archives the output file ahead of the source check.
SourceCheckAfterCopy ==
    /\ pc = "loop" /\ stage = "source_check"
    /\ jobs' = jobs + 1
    /\ started' = Append(started, Layer)
    /\ bk' = NoBackup
    /\ backupDir' = IF out[Layer] = NoFile THEN backupDir
                    ELSE Copied(backupDir, Layer, now, out[Layer])
    /\ \E exists \in BOOLEAN :
          IF exists
          THEN /\ stage' = "backup"
               /\ prev' = out[Layer]
               /\ UNCHANGED <<pc, idx, status, failedAt, success_count, total_count,
                               exit_code, gdf>>
          ELSE SourceMissing(Layer)
    /\ UNCHANGED <<config, out, now, hist, rc, call>>

SourceCheck ==
    /\ pc = "loop" /\ stage = "source_check"
    /\ jobs' = jobs + 1
    /\ started' = Append(started, Layer)
    /\ bk' = NoBackup
    /\ \E exists \in BOOLEAN :
          IF exists
          THEN /\ stage' = "backup"
               /\ prev' = out[Layer]
               /\ UNCHANGED <<pc, idx, status, failedAt, success_count, total_count,
                               exit_code, gdf>>
          ELSE SourceMissing(Layer)
    /\ UNCHANGED <<config, out, backupDir, now, hist, rc, call>>

\* The timestamps of the copies made in a row, the last KEEP + 1 of them.
Remember(h, t) ==
    LET all == Append(h, t)
    IN  IF Len(all) > KEEP + 1 THEN SubSeq(all, 2, Len(all)) ELSE all

\* `if not output_path.exists(): return`; before it, the test left out.
NeverMissing(l) == FALSE

OutputMissing(l) == out[l] = NoFile

\* backup_existing_file(output_path), called as stage 2 of the job.  The
\* timestamp is read from a clock that does not run backwards.  The copy may
\* raise (nothing written, or a truncated archive), and so may one unlink of
\* the pruning loop, which ends the call at that archive.
Backup ==
    /\ pc = "loop" /\ stage = "backup"
    /\ LET l == Layer IN
       IF OutputMissing(l)
       THEN /\ Goto("load")
            /\ gdf' = gdf
            /\ bk' = [outcome |-> "noop", stem |-> l, ts |-> now]
            /\ hist' = [hist EXCEPT ![l] = <<>>]
            /\ UNCHANGED <<backupDir, now>>
       ELSE \E t \in now..Min(now + 1, MaxClock) :
            /\ now' = t
            /\ \/ /\ Raise(l, "backup")
                  /\ bk' = [outcome |-> "copy_raised", stem |-> l, ts |-> t]
                  /\ hist' = [hist EXCEPT ![l] = <<>>]
                  /\ \E d \in {backupDir, Copied(backupDir, l, t, Partial)} :
                        backupDir' = d
               \/ LET copied == Copied(backupDir, l, t, out[l])
                      backups == Sorted(Glob(copied, l))
                      stale == Stale(backups)
                  IN  \E failAt \in 0..Len(stale) :
                      LET gone == IF failAt = 0 THEN Len(stale) ELSE failAt - 1
                      IN  /\ backupDir' = copied \ {stale[i] : i \in 1..gone}
                          /\ IF failAt = 0
                             THEN /\ Goto("load")
                                  /\ gdf' = gdf
                                  /\ bk' = [outcome |-> "ok", stem |-> l, ts |-> t]
                                  /\ hist' = [hist EXCEPT ![l] = Remember(@, t)]
                             ELSE /\ Raise(l, "backup")
                                  /\ bk' = [outcome |-> "unlink_raised", stem |-> l, ts |-> t]
                                  /\ hist' = [hist EXCEPT ![l] = <<>>]
    /\ UNCHANGED <<config, out, jobs, started, rc, call>>

\* Stage 3: gpd.read_file(source_path) returns a dataset or raises.
Load ==
    /\ pc = "loop" /\ stage = "load"
    /\ \/ \E d \in Datasets : gdf' = d /\ Goto("repair")
       \/ Raise(Layer, "load")
    /\ UNCHANGED <<config, out, backupDir, now, jobs, bk, hist, started, rc, call>>

\* Stage 4: validate_and_fix_geometries(gdf); before it, a repair followed
\* at once by the simplification.
RepairThenSimplify ==
    /\ pc = "loop" /\ stage = "repair"
    /\ \/ gdf' = validate_and_fix_geometries(gdf) /\ Goto("simplify")
       \/ Raise(Layer, "repair")
    /\ UNCHANGED <<config, out, backupDir, now, jobs, bk, hist, started, rc, call>>

Repair ==
    /\ pc = "loop" /\ stage = "repair"
    /\ \/ gdf' = validate_and_fix_geometries(gdf) /\ Goto("reproject")
       \/ Raise(Layer, "repair")
    /\ UNCHANGED <<config, out, backupDir, now, jobs, bk, hist, started, rc, call>>

\* Stage 5: `if gdf.crs != TARGET_CRS: gdf = gdf.to_crs(TARGET_CRS)`.  Only
\* to_crs can raise (a source without CRS, a transformation pyproj lacks).
Reproject ==
    /\ pc = "loop" /\ stage = "reproject"
    /\ \/ /\ gdf' = Reprojected(gdf)
          /\ Goto("simplify")
       \/ /\ gdf.crs # TARGET_CRS
          /\ Raise(Layer, "reproject")
    /\ UNCHANGED <<config, out, backupDir, now, jobs, bk, hist, started, rc, call>>

\* Stage 6: the geometry column is replaced by its simplification.
Simplify ==
    /\ pc = "loop" /\ stage = "simplify"
    /\ \/ gdf' = simplify(gdf) /\ Goto("clean")
       \/ Raise(Layer, "simplify")
    /\ UNCHANGED <<config, out, backupDir, now, jobs, bk, hist, started, rc, call>>

\* Stage 7: clean_attributes(gdf)
Clean ==
    /\ pc = "loop" /\ stage = "clean"
    /\ \/ gdf' = clean_attributes(gdf, ATTRIBUTES_TO_KEEP) /\ Goto("export")
       \/ Raise(Layer, "clean")
    /\ UNCHANGED <<config, out, backupDir, now, jobs, bk, hist, started, rc, call>>

\* Stage 8: gdf.to_file(output_path) overwrites the output file; a write that
\* raises leaves the old file or a truncated one.
Export ==
    /\ pc = "loop" /\ stage = "export"
    /\ \/ /\ out' = [out EXCEPT ![Layer] = Exported(gdf)]
          /\ gdf' = gdf
          /\ Goto("round")
       \/ /\ \E c \in {out[Layer], Partial} : out' = [out EXCEPT ![Layer] = c]
          /\ Raise(Layer, "export")
    /\ UNCHANGED <<config, backupDir, now, jobs, bk, hist, started, rc, call>>

\* Stage 9 and 10: the file is read back, every feature's coordinates go
\* through round_coords, the document is written minified, and its size is
\* read.  Reading may raise (file as exported), the loop raises on a feature
\* it cannot round, writing may raise (file truncated), stat may raise (file
\* written).
RoundAndFinish ==
    /\ pc = "loop" /\ stage = "round"
    /\ IF RoundRaises(out[Layer])
       THEN /\ out' = out
            /\ Raise(Layer, "round")
       ELSE \/ /\ out' = [out EXCEPT ![Layer] = RoundedDoc(out[Layer])]
               /\ Return(Layer, TRUE, "none")
            \/ /\ \E c \in {out[Layer], Partial, RoundedDoc(out[Layer])} :
                     out' = [out EXCEPT ![Layer] = c]
               /\ Raise(Layer, "round")
    /\ UNCHANGED <<config, backupDir, now, jobs, bk, hist, started, rc, call>>

\* The final report: `return 0 if success_count == total_count else 1`;
\* before it, a report that always returns 0.
ExitCodeAlwaysZero(ok, total) == 0

ExitCode(ok, total) == IF ok = total THEN 0 ELSE 1

Report ==
    /\ pc = "report"
    /\ exit_code' = ExitCode(success_count, total_count)
    /\ pc' = "exited"
    /\ UNCHANGED <<config, idx, stage, status, success_count, total_count, gdf,
                   out, backupDir, now, jobs, prev, failedAt, bk, hist, started, rc, call>>

\* Between two runs somebody removes an output file from PROCESSED_DATA_DIR;
\* output_path.exists() is how the next run sees it.
OutputRemoved ==
    /\ pc \in {"start", "exited", "crashed"}
    /\ CanRun
    /\ \E i \in 1..Len(config) :
          /\ out[config[i]] # NoFile
          /\ out' = [out EXCEPT ![config[i]] = NoFile]
    /\ UNCHANGED <<config, pc, idx, stage, status, success_count, total_count,
                   exit_code, gdf, backupDir, now, jobs, prev, failedAt, bk, hist, started, rc, call>>

Next ==
    \/ MainStart
    \/ SourceCheck
    \/ Backup
    \/ Load
    \/ Repair
    \/ Reproject
    \/ Simplify
    \/ Clean
    \/ Export
    \/ RoundAndFinish
    \/ Report
    \/ OutputRemoved

Spec == Init /\ [][Next]_vars

\* The steps of a run of main, from the first process_layer call to the
\* return of main.
Run ==
    \/ SourceCheck
    \/ Backup
    \/ Load
    \/ Repair
    \/ Reproject
    \/ Simplify
    \/ Clean
    \/ Export
    \/ RoundAndFinish
    \/ Report

\* ----------------------------------------------- round_coords on its own
\* The arguments round_coords is tried on: numbers, lists of at most MaxLen
\* numbers, lists of at most MaxLen of those (empty lists and lists mixing
\* numbers and lists included), and such a list nested once more.
Ordinates == {Num(0 - 15), Num(14)}

ListsOf(S) == UNION {{List(q) : q \in [1..k -> S]} : k \in 0..MaxLen}

Depth1 == Ordinates \cup ListsOf(Ordinates)
Depth2 == Ordinates \cup ListsOf(Depth1)
Arguments ==
    Depth2 \cup {List(<<t>>) : t \in Depth2} \cup {List(<<t, t>>) : t \in Depth2}

InitRound ==
    /\ config = LAYERS_CONFIG
    /\ pc = "start"
    /\ idx = 1
    /\ stage = "source_check"
    /\ status = [s \in Stems |-> "NotStarted"]
    /\ success_count = 0
    /\ total_count = 0
    /\ exit_code = 0
    /\ gdf = NoGdf
    /\ out = [s \in Stems |-> NoFile]
    /\ backupDir = {}
    /\ now = 0
    /\ jobs = 0
    /\ prev = NoFile
    /\ failedAt = [s \in Stems |-> "none"]
    /\ bk = NoBackup
    /\ hist = [s \in Stems |-> <<>>]
    /\ started = <<>>
    /\ call = CallIdle
    /\ \E x \in Arguments : rc = [x |-> x, once |-> Raised, twice |-> Raised, n |-> 0]

pipeline ==
    <<config, pc, idx, stage, status, success_count, total_count, exit_code,
      gdf, out, backupDir, now, jobs, prev, failedAt, bk, hist, started>>

\* round_coords(x)
RoundOnce ==
    /\ rc.n = 0
    /\ rc' = [rc EXCEPT !.once = round_coords(rc.x), !.n = 1]
    /\ UNCHANGED <<pipeline, call>>

\* round_coords(round_coords(x)), when the first call returned.
RoundTwice ==
    /\ rc.n = 1
    /\ rc.once # Raised
    /\ rc' = [rc EXCEPT !.twice = round_coords(rc.once), !.n = 2]
    /\ UNCHANGED <<pipeline, call>>

NextRound == RoundOnce \/ RoundTwice

SpecRound == InitRound /\ [][NextRound]_vars

\* --------------------------------------------------- functions on their own
\* No run of main under way: the variables of main and process_layer as Init
\* leaves them, with the whole of LAYERS_CONFIG configured.
NoRun ==
    /\ config = LAYERS_CONFIG
    /\ pc = "start"
    /\ idx = 1
    /\ stage = "source_check"
    /\ status = [s \in Stems |-> "NotStarted"]
    /\ success_count = 0
    /\ total_count = 0
    /\ exit_code = 0
    /\ gdf = NoGdf
    /\ out = [s \in Stems |-> NoFile]
    /\ jobs = 0
    /\ prev = NoFile
    /\ failedAt = [s \in Stems |-> "none"]
    /\ bk = NoBackup
    /\ hist = [s \in Stems |-> <<>>]
    /\ started = <<>>

\* The geometries count_vertices is tried on: every type shapely has, the
\* polygons with up to MaxHoles holes, the multi-part ones with up to
\* MaxParts members, the empty geometries and None.
Triangle == List(<<Pos(0, 0), Pos(31, 0), Pos(31, 47), Pos(0, 0)>>)
Square == List(<<Pos(0, 0), Pos(31, 0), Pos(31, 47), Pos(0, 47), Pos(0, 0)>>)
Hole == List(<<Pos(10, 5), Pos(20, 5), Pos(20, 15), Pos(10, 5)>>)
Empty == List(<<>>)

PointCoords == {Pos(0, 0), Pos(31, 47)}
LineCoords ==
    {Empty, List(<<Pos(0, 0), Pos(31, 0)>>),
     List(<<Pos(0, 0), Pos(31, 0), Pos(31, 47)>>)}
PolygonCoords ==
    {Empty} \cup {List(<<e>> \o [i \in 1..k |-> Hole]) :
                     e \in {Triangle, Square}, k \in 0..MaxHoles}

PartsOf(S) == UNION {{List(q) : q \in [1..k -> S]} : k \in 0..MaxParts}

Geometries ==
    {Geom("null", Empty, FALSE)}
    \cup {Geom("Point", c, TRUE) : c \in PointCoords \cup {Empty}}
    \cup {Geom("MultiPoint", c, TRUE) : c \in PartsOf(PointCoords)}
    \cup {Geom("LineString", c, TRUE) : c \in LineCoords}
    \cup {Geom("MultiLineString", c, TRUE) : c \in PartsOf(LineCoords)}
    \cup {Geom("Polygon", c, TRUE) : c \in PolygonCoords}
    \cup {Geom("MultiPolygon", c, TRUE) : c \in PartsOf(PolygonCoords)}
    \cup {Geom("LinearRing", Triangle, TRUE)}
    \cup {Geom("GeometryCollection", List(<<Triangle, Pos(0, 0)>>), TRUE)}

InitCount ==
    /\ NoRun
    /\ backupDir = {}
    /\ now = 0
    /\ rc = RcIdle
    /\ \E g \in Geometries : call = [geom |-> g, result |-> 0, n |-> 0]

\* count_vertices(geom)
CountOnce ==
    /\ call.n = 0
    /\ call' = [call EXCEPT !.result = count_vertices(call.geom), !.n = 1]
    /\ UNCHANGED <<pipeline, rc>>

NextCount == CountOnce

SpecCount == InitCount /\ [][NextCount]_vars

\* The frames and the allow-lists clean_attributes is tried on: every choice
\* among four attribute columns, and the allow-lists of at most MaxKeep names
\* among a text column, a date column, a '__' column and a name that is no
\* column of any frame.
AttributeColumns ==
    <<Column("name", "object"), Column("extra", "int64"),
      Column("date_maj", "datetime64"), Column("__fid", "int64")>>
Frames ==
    {[crs |-> TARGET_CRS, feats |-> DsParcels.feats,
      cols |-> SelectSeq(AttributeColumns, LAMBDA c : c \in S) \o <<GeometryColumn>>] :
        S \in SUBSET Range(AttributeColumns)}
AllowNames == {"name", "date_maj", "__fid", "id"}
AllowLists == UNION {[1..k -> AllowNames] : k \in 0..MaxKeep}

InitClean ==
    /\ NoRun
    /\ backupDir = {}
    /\ now = 0
    /\ rc = RcIdle
    /\ \E g \in Frames, keep \in AllowLists :
          call = [gdf |-> g, keep |-> keep, result |-> NoGdf, n |-> 0]

\* clean_attributes(gdf) under the allow-list keep
CleanOnce ==
    /\ call.n = 0
    /\ call' = [call EXCEPT !.result = clean_attributes(call.gdf, call.keep), !.n = 1]
    /\ UNCHANGED <<pipeline, rc>>

NextClean == CleanOnce

SpecClean == InitClean /\ [][NextClean]_vars

\* The output paths backup_existing_file is tried on: the stems a
\* configuration can give to its output_name entries, here two of
\* LAYERS_CONFIG and one more that goes on from "lots" with a '_'.
OutputStems == {"lots", "ilots", "lots_2023"}
ArchivedDoc == RoundedDoc(Exported(DsParcels))
CurrentDoc == RoundedDoc(Exported(to_crs(DsParcels)))

\* The backup directories the calls start from: for every stem at most KEEP
\* archives, taken in seconds before the last one of the clock.
Directories ==
    {UNION {{Archive(s, t, ArchivedDoc) : t \in T[s]} : s \in OutputStems} :
        T \in [OutputStems ->
                 {X \in SUBSET (0..(MaxClock - 1)) : Cardinality(X) <= KEEP}]}

InitBackup ==
    /\ NoRun
    /\ rc = RcIdle
    /\ now = MaxClock - 1
    /\ backupDir \in Directories
    /\ \E l \in OutputStems, c \in {NoFile, CurrentDoc} :
          call = [output |-> l, content |-> c, before |-> backupDir,
                  outcome |-> "none", n |-> 0]

\* backup_existing_file(output_path) for the output file of stem call.output
\* whose content is call.content, with the outcomes of the Backup stage.
BackupOnce ==
    /\ call.n = 0
    /\ LET l == call.output IN
       IF call.content = NoFile
       THEN /\ call' = [call EXCEPT !.outcome = "noop", !.n = 1]
            /\ UNCHANGED <<backupDir, now>>
       ELSE \E t \in now..Min(now + 1, MaxClock) :
            /\ now' = t
            /\ \/ /\ call' = [call EXCEPT !.outcome = "copy_raised", !.n = 1]
                  /\ \E d \in {backupDir, Copied(backupDir, l, t, Partial)} :
                        backupDir' = d
               \/ LET copied == Copied(backupDir, l, t, call.content)
                      backups == Sorted(Glob(copied, l))
                      stale == Stale(backups)
                  IN  \E failAt \in 0..Len(stale) :
                      LET gone == IF failAt = 0 THEN Len(stale) ELSE failAt - 1
                      IN  /\ backupDir' = copied \ {stale[i] : i \in 1..gone}
                          /\ call' = [call EXCEPT
                                 !.outcome = IF failAt = 0 THEN "ok" ELSE "unlink_raised",
                                 !.n = 1]
    /\ UNCHANGED <<config, pc, idx, stage, status, success_count, total_count,
                   exit_code, gdf, out, jobs, prev, failedAt, bk, hist, started, rc>>

NextBackup == BackupOnce

SpecBackup == InitBackup /\ [][NextBackup]_vars

\* ----------------------------------------------------------------- claims
Archives(s) == Glob(backupDir, s)
Times(S) == {f.ts : f \in S}
Configured == {config[i] : i \in 1..Len(config)}
Increasing(h) == \A i \in 1..(Len(h) - 1) : h[i] < h[i + 1]
LastTimes(h, k) == {h[i] : i \in (Len(h) - k + 1)..Len(h)}
Running == pc \in {"loop", "report"}
AfterSourceCheck == {Stages[i] : i \in 2..Len(Stages)}

C4_MissingSourceFailsJobOnly ==
    /\ \A l \in Stems : failedAt[l] = "source_check" => status[l] = "Failed"
    /\ (\E l \in Stems : failedAt[l] = "source_check") =>
          /\ pc # "crashed"
          /\ pc \in {"report", "exited"} =>
                \A l \in Configured : status[l] \in {"Done", "Failed"}

C4_Witness ==
    /\ pc = "exited"
    /\ Len(config) = 3
    /\ failedAt[config[1]] = "source_check"
    /\ status[config[2]] = "Done"
    /\ status[config[3]] = "Done"
    /\ success_count = 2

\* C5: an exception raised in a stage after the source check (backup, load,
\* repair, reproject, simplify, clean, export, round) makes that job Failed,
\* the run does not crash, and when the loop is over every configured job has
\* been processed.
C5_StageExceptionFailsJobOnly ==
    /\ \A l \in Stems : failedAt[l] \in AfterSourceCheck => status[l] = "Failed"
    /\ (\E l \in Stems : failedAt[l] \in AfterSourceCheck) =>
          /\ pc # "crashed"
          /\ pc \in {"report", "exited"} =>
                \A l \in Configured : status[l] \in {"Done", "Failed"}

C5_Witness ==
    /\ pc = "exited"
    /\ Len(config) = 3
    /\ failedAt[config[1]] = "backup" \/ failedAt[config[1]] = "load"
    /\ failedAt[config[2]] = "round"
    /\ status[config[3]] = "Done"

\* C6: the exit status is 0 exactly when every configured job is Done, and 1
\* otherwise; the reported count is the number of Done jobs and the reported
\* total the number of configured jobs.
C6_ExitStatus ==
    pc = "exited" =>
        /\ exit_code \in {0, 1}
        /\ exit_code = 0 <=> \A l \in Configured : status[l] = "Done"
        /\ success_count = Cardinality({l \in Configured : status[l] = "Done"})
        /\ total_count = Cardinality(Configured)

C6_Witness ==
    /\ pc = "exited"
    /\ exit_code = 1
    /\ success_count = 1
    /\ total_count = 2

\* C7 as stated: an unlink that fails in the pruning loop does not fail the
\* job (it goes on to the load stage) and the other stale archives are still
\* removed, so that only the one that could not be removed stays in excess.
C7_UnlinkFailureTolerated ==
    bk.outcome = "unlink_raised" =>
        /\ failedAt[bk.stem] # "backup"
        /\ Cardinality(Archives(bk.stem)) <= KEEP + 1

\* C8: backup_existing_file on an output path that does not exist changes
\* nothing in the backup directory, whatever the directory holds.
C8_NoOutputNoChange ==
    [][(pc = "loop" /\ stage = "backup" /\ out[Layer] = NoFile)
          => backupDir' = backupDir]_vars

C8_Witness ==
    /\ bk.outcome = "noop"
    /\ stage = "load"
    /\ Cardinality(Archives(bk.stem)) > KEEP

\* C9: while a run lasts, the output file of every job that reached Done is
\* a minified GeoJSON document whose every coordinate has at most PRECISION
\* decimals.
C9_DoneMeansRounded ==
    Running =>
        \A l \in Configured :
            status[l] = "Done" => FileRounded(out[l]) /\ out[l].minified

C9_Witness ==
    /\ pc = "report"
    /\ \E l \in Configured :
          /\ status[l] = "Done"
          /\ FileRounded(out[l])
          /\ out[l] # RoundedDoc(Exported(DsParcels))

\* Depth of nesting of a tree: 0 for a number.
RECURSIVE Nesting(_)
Nesting(t) ==
    IF t.kind # "list" THEN 0
    ELSE IF Len(t.items) = 0 THEN 1
    ELSE 1 + Nesting(t.items[1])

\* C10: round_coords is idempotent: for every argument on which it returns,
\* round_coords(round_coords(x)) returns the very structure round_coords(x).
C10_RoundCoordsIdempotent ==
    rc.n = 2 => (rc.twice # Raised /\ rc.twice = rc.once)

C10_Witness ==
    /\ rc.n = 2
    /\ rc.twice = rc.once
    /\ rc.once # rc.x
    /\ Nesting(rc.x) = 3
    /\ Len(rc.x.items) = 2

\* The coordinates counted one by one: the pairs (member, position in it).
Places(members) ==
    UNION {{<<i, j>> : j \in 1..Len(members[i].items)} : i \in 1..Len(members)}

Exteriors(polygons) ==
    [i \in 1..Len(polygons) |->
        IF Len(polygons[i].items) = 0 THEN Empty ELSE polygons[i].items[1]]

\* C11: count_vertices returns 0 for None, 1 for a Point, the number of
\* members of a MultiPoint, the number of coordinates of a LineString, that
\* number summed over the lines of a MultiLineString, the number of
\* coordinates of the exterior ring of a Polygon (holes left out), that
\* number summed over the polygons of a MultiPolygon, 0 for any other type,
\* and never a negative number.
C11_CountVertices ==
    call.n = 1 =>
        LET t == call.geom.type
            c == call.geom.coords.items
            r == call.result
        IN  /\ r >= 0
            /\ t = "null" => r = 0
            /\ t = "Point" => r = 1
            /\ t = "MultiPoint" => r = Len(c)
            /\ t = "LineString" => r = Len(c)
            /\ t = "MultiLineString" => r = Cardinality(Places(c))
            /\ t = "Polygon" => r = Cardinality(Places(Exteriors(<<call.geom.coords>>)))
            /\ t = "MultiPolygon" => r = Cardinality(Places(Exteriors(c)))
            /\ t \notin {"null", "Point", "MultiPoint", "LineString",
                         "MultiLineString", "Polygon", "MultiPolygon"} => r = 0

C11_Witness ==
    /\ call.n = 1
    /\ call.geom.type = "MultiPolygon"
    /\ call.geom.coords = List(<<List(<<Square, Hole, Hole>>), List(<<Triangle, Hole>>)>>)
    /\ call.result = 9

Names(cols) == {cols[i].name : i \in 1..Len(cols)}

\* C12: clean_attributes returns (it raises nothing, whatever names the
\* allow-list holds) a frame with the same geometries whose columns are,
\* under a non-empty allow-list, the geometry and exactly the allow-listed
\* names that are columns of the input and do not start with '__', and under
\* an empty allow-list every column of the input that does not start with '__'.
C12_CleanAttributes ==
    call.n = 1 =>
        LET before == Names(call.gdf.cols)
            after == Names(call.result.cols)
            allowed == {a \in Range(call.keep) : a \in before /\ ~StartsWith(a, "__")}
        IN  /\ call.result.feats = call.gdf.feats
            /\ "geometry" \in after
            /\ Len(call.keep) > 0 => after = {"geometry"} \cup allowed
            /\ Len(call.keep) = 0 => after = {c \in before : ~StartsWith(c, "__")}

C12_Witness ==
    /\ call.n = 1
    /\ call.keep = <<"id", "__fid", "name">>
    /\ Names(call.gdf.cols) = {"name", "extra", "date_maj", "__fid", "geometry"}
    /\ call.result.cols = <<GeometryColumn, Column("name", "object")>>

\* C13: the reprojection stage of a collection whose CRS is the target CRS
\* leaves the collection (geometries and CRS tag) as it is and goes on to the
\* simplification without failing the job; and whenever a job arrives at the
\* simplification stage its collection carries the target CRS.
C13_Reprojection ==
    [][/\ (pc = "loop" /\ stage = "reproject" /\ gdf.crs = TARGET_CRS) =>
             /\ gdf' = gdf
             /\ pc' = "loop" /\ idx' = idx /\ stage' = "simplify"
             /\ failedAt' = failedAt /\ status' = status
       /\ (pc' = "loop" /\ stage' = "simplify") => gdf'.crs = TARGET_CRS]_vars

C13_Witness ==
    /\ pc = "loop" /\ stage = "simplify"
    /\ gdf = to_crs(validate_and_fix_geometries(DsParcels))
    /\ gdf.feats # DsParcels.feats
    /\ \E l \in Stems :
          out[l] = Exported(simplify(validate_and_fix_geometries(DsBroken)))

\* C14: a step of a layer job either moves it from its stage to the very
\* next one of source check, backup, load, repair, reproject, simplify,
\* clean, export, round (so no stage is skipped or repeated, and the
\* simplification comes after the reprojection), or ends it Failed, or, from
\* the last stage only, ends it Done.
C14_StageOrder ==
    [][pc = "loop" =>
          \/ /\ pc' = "loop" /\ idx' = idx /\ status' = status
             /\ \E i \in 1..(Len(Stages) - 1) :
                   stage = Stages[i] /\ stage' = Stages[i + 1]
          \/ /\ idx' = idx + 1 /\ stage' = Stages[1]
             /\ status' = [status EXCEPT ![Layer] = "Failed"]
          \/ /\ idx' = idx + 1 /\ stage' = Stages[1]
             /\ stage = Stages[Len(Stages)]
             /\ status' = [status EXCEPT ![Layer] = "Done"]]_vars

C14_Witness ==
    /\ pc = "loop" /\ idx = 3 /\ stage = "simplify"
    /\ status[config[1]] = "Done"
    /\ failedAt[config[2]] = "reproject"

\* The steps a run has left at most: the stages left in the current job, all
\* the stages of the jobs after it, and the report.
Position(st) == CHOOSE i \in 1..Len(Stages) : Stages[i] = st
StepsLeft ==
    IF pc = "loop"
    THEN (Len(config) - idx) * Len(Stages) + (Len(Stages) - Position(stage)) + 2
    ELSE IF pc = "report" THEN 1 ELSE 0

\* C15: in a run, process_layer is called for the configured layers in the
\* order of the configuration, once each (the calls made so far are a prefix
\* of the configuration), a call is made only when every earlier job is Done
\* or Failed and no later one has started, and at the report every
\* configured job has been called and has ended; the run terminates with an
\* exit status of 0 or 1: until main has returned a step of the run is
\* always possible, and every step leaves fewer steps to take.
C15_JobsInOrder ==
    /\ [](pc \in {"loop", "report", "exited"} =>
            /\ Len(started) <= Len(config)
            /\ started = SubSeq(config, 1, Len(started))
            /\ \A i \in 1..(Len(started) - 1) : status[started[i]] \in {"Done", "Failed"}
            /\ \A i \in (Len(started) + 1)..Len(config) : status[config[i]] = "NotStarted"
            /\ pc \in {"report", "exited"} =>
                  /\ started = config
                  /\ \A l \in Configured : status[l] \in {"Done", "Failed"}
            /\ pc = "exited" => exit_code \in {0, 1}
            /\ Running => ENABLED Run)
    /\ [][Running => (StepsLeft' < StepsLeft /\ StepsLeft' >= 0)]_vars

C15_Witness ==
    /\ pc = "exited"
    /\ started = LAYERS_CONFIG
    /\ status["lots"] = "Failed" /\ status["ilots"] = "Done"
    /\ status["polygonale"] = "Failed"
    /\ exit_code = 1

\* The archives made of the output file of stem s.
Owned(dir, s) == {f \in dir : f.stem = s}

\* C16 as stated: a call of backup_existing_file for one output path leaves
\* the archives of every output path of another stem as they were: none of
\* them is deleted or overwritten.
C16_OtherArchivesUntouched ==
    call.n = 1 =>
        \A s \in OutputStems \ {call.output} :
            Owned(backupDir, s) = Owned(call.before, s)

\* A nested array of numbers: a list of numbers (none, maybe) or a list of
\* nested arrays.
RECURSIVE IsNestedArray(_)
IsNestedArray(t) ==
    /\ t.kind = "list"
    /\ \/ \A i \in 1..Len(t.items) : t.items[i].kind = "num"
       \/ \A i \in 1..Len(t.items) : IsNestedArray(t.items[i])

\* r has the nesting, the lengths and the order of t, and each of its leaves
\* is the leaf of t at the same place rounded to PRECISION decimals.
RECURSIVE RoundedCopy(_, _)
RoundedCopy(t, r) ==
    IF t.kind = "num" THEN r = Num(Round(t.num))
    ELSE /\ r.kind = "list"
         /\ Len(r.items) = Len(t.items)
         /\ \A i \in 1..Len(t.items) : RoundedCopy(t.items[i], r.items[i])

\* C17 as stated: on every nested array of numbers, an array that is empty
\* at some level included, round_coords returns an array of the same
\* nesting, lengths and order whose leaves are the rounded leaves.
C17_StructurePreserved ==
    (rc.n >= 1 /\ IsNestedArray(rc.x)) =>
        (rc.once # Raised /\ RoundedCopy(rc.x, rc.once))

\* C18 as stated: the step that ends a job Failed leaves the output file
\* with the content it had when the job started.
C18_FailedLeavesOutput ==
    [][(pc = "loop" /\ status'[Layer] = "Failed") =>
          out'[Layer] = (IF stage = "source_check" THEN out[Layer] ELSE prev)]_vars

\* C19: the step of a job that finds its source file absent ends the job
\* Failed with the backup directory and every output file as they were, and
\* without a call of backup_existing_file.
C19_MissingSourceNoChange ==
    [][(pc = "loop" /\ stage = "source_check" /\ stage' # "backup") =>
          /\ status' = [status EXCEPT ![Layer] = "Failed"]
          /\ failedAt'[Layer] = "source_check"
          /\ backupDir' = backupDir
          /\ out' = out
          /\ bk' = NoBackup]_vars

C19_Witness ==
    /\ \E l \in Configured :
          /\ failedAt[l] = "source_check"
          /\ status[l] = "Failed"
          /\ out[l] # NoFile
          /\ Cardinality(Archives(l)) = KEEP
    /\ bk = NoBackup
    /\ pc = "report"

====
